---- MODULE Spec2Model ----
(***************************************************************************)
(* A model of isaacutils: the batching EmailHandler of mail.py (its queue, *)
(* its lock, the threads that call emit/flush/close and the send threads   *)
(* it starts), the alert functions send_alert and send_html_alert, the     *)
(* escaping of stack traces, and the attribute extractor get_post_attr of  *)
(* posts.py.                                                               *)
(***************************************************************************)
EXTENDS Integers, Sequences, FiniteSets, TLC

(***************************************************************************)
(* Bounds of the model.                                                    *)
(***************************************************************************)
\* Number of application threads that call into the handler.
NumThreads == 2
\* Number of log records handed to emit over a run.
MaxEvents == 3
\* Largest configured max_batch_size (0 stands for None: no limit).
MaxLimit == 2

\* thread.join(timeout=30)
JOIN_TIMEOUT == 30

Threads == 1..NumThreads
NoThread == 0

VARIABLES
    max_batch_size, \* self.max_batch_size; 0 models None
    error_queue,    \* self.error_queue: the pending records, oldest first
    batch_lock,     \* self.batch_lock: the thread that holds it, or NoThread
    closed,         \* logging.Handler.close has run
    pc,             \* pc[t]: where thread t is in emit/flush/close/_send_batch
    op,             \* op[t]: the call thread t is in
    wait,           \* wait[t]: the wait argument of thread t's _send_batch
    joined,         \* joined[t]: the send thread that t joins (index in sends)
    clock,          \* clock[t]: time t has spent in thread.join
    sends,          \* the send threads started so far, in start order
    fallback,       \* the sends whose failure _send_email_batch printed
    exitThread,     \* the thread that ran the atexit hook, or NoThread
    appended,       \* history: the number of records appended so far
    levelno,        \* levelno[t]: the level of the record thread t hands to emit
    levels,         \* history: levels[n] is the level of record n
    dropped,        \* history: the number of records the handler was not given
    post_obj,       \* get_post_attr's argument post_obj
    attr,           \* get_post_attr's argument attr
    post_attr_paths,\* get_post_attr's argument post_attr_paths
    result,         \* what the call of get_post_attr gave: a value or an exception
    alert_fn,       \* the alert function called: send_alert or send_html_alert
    to_addr,        \* its argument to_addr: a string or a list of strings
    alert_pc,       \* the statement the call is at
    pwd,            \* whether the password has been read from pwdfile
    msg,            \* the message built, or NoMessage
    session,        \* the SMTP session s: "none", "open" or "closed"
    raised,         \* the call whose exception left the function, or "none"
    transcript,     \* history: the calls made to the file system and the server
    delivered,      \* history: the messages the server accepted
    exc_text,       \* _format_html_batch's exc_text: the text of a stack trace
    esc_pc,         \* where the rendering of the stack trace is
    escaped,        \* what _escape_html(exc_text) returned
    html            \* the stack trace block added to html

\* the levels of the records logged
logVars == <<levelno, levels, dropped>>

mailVars == <<max_batch_size, error_queue, batch_lock, closed, pc, op, wait,
              joined, clock, sends, fallback, exitThread, appended, logVars>>

postVars == <<post_obj, attr, post_attr_paths, result>>

alertVars == <<alert_fn, to_addr, alert_pc, pwd, msg, session, raised, transcript,
               delivered>>

escapeVars == <<exc_text, esc_pc, escaped, html>>

\* what the handler's steps leave alone, what the extractor's call does, what
\* a call of an alert function does
nonMailVars == <<postVars, alertVars, escapeVars>>
nonPostVars == <<mailVars, alertVars, escapeVars>>
nonAlertVars == <<mailVars, postVars, escapeVars>>

(***************************************************************************)
(* EmailHandler.__init__                                                   *)
(***************************************************************************)
MailInit ==
    /\ max_batch_size \in 0..MaxLimit
    /\ error_queue = << >>
    /\ batch_lock = NoThread
    /\ closed = FALSE
    /\ pc = [t \in Threads |-> "idle"]
    /\ op = [t \in Threads |-> "none"]
    /\ wait = [t \in Threads |-> FALSE]
    /\ joined = [t \in Threads |-> 0]
    /\ clock = [t \in Threads |-> 0]
    /\ sends = << >>
    /\ fallback = {}
    /\ exitThread = NoThread
    /\ appended = 0
    /\ levelno = [t \in Threads |-> "NOTSET"]
    /\ levels = << >>
    /\ dropped = 0

(***************************************************************************)
(* The level of the handler.  A logger hands a record to a handler only if *)
(* the record's level is at least the handler's level, which __init__ sets *)
(* to logging.ERROR.                                                       *)
(***************************************************************************)
\* the levels of the logging module, lowest first
LevelOrder == <<"DEBUG", "INFO", "WARNING", "ERROR", "CRITICAL">>
Rank(level) == CHOOSE k \in DOMAIN LevelOrder : LevelOrder[k] = level

\* the levels of the records the application logs
RecordLevels == {"WARNING", "ERROR", "CRITICAL"}

\* super().__init__(level=logging.ERROR)
HandlerLevel == "ERROR"

\* a handler that is given every record
Accepts_All(level) == TRUE

\* record.levelno >= handler.level
Accepts(level) == Rank(level) >= Rank(HandlerLevel)

(***************************************************************************)
(* threading.Lock: acquire blocks until the lock is free, whoever holds    *)
(* it (the lock is not reentrant).                                         *)
(***************************************************************************)
CanAcquire(t) == batch_lock = NoThread

\* the test with > in the place of >=
ReachedLimit_Strict(q) == max_batch_size # 0 /\ Len(q) > max_batch_size

\* the test without its first operand
ReachedLimit_LengthOnly(q) == Len(q) >= max_batch_size

\* emit's test: self.max_batch_size and len(self.error_queue) >= self.max_batch_size
ReachedLimit(q) == max_batch_size # 0 /\ Len(q) >= max_batch_size

\* the record put in front of the queue (appendleft)
QueueAppend_Left(q, r) == <<r>> \o q

\* self.error_queue.append(record)
QueueAppend(q, r) == Append(q, r)

\* records = list(self.error_queue)
DetachedRecords(q) == q

\* the queue left as it is
ClearedQueue_Kept(q) == q

\* self.error_queue.clear()
ClearedQueue(q) == << >>

(***************************************************************************)
(* emit(record).  A record is named by the rank of its append: the n-th    *)
(* record appended to the queue is record n.                               *)
(***************************************************************************)
\* the threads that are in emit and have not appended their record yet
Emitting == {u \in Threads : pc[u] \in {"emit_acquire", "emit_append"}}

\* the records logged so far: appended, on their way into the queue, or
\* not given to the handler
Logged == appended + Cardinality(Emitting) + dropped

\* a thread logs a record that the handler is given: emit(record) is called
CallEmit(t) ==
    /\ pc[t] = "idle"
    /\ t # exitThread
    /\ Logged < MaxEvents
    /\ \E level \in RecordLevels :
           /\ Accepts(level)
           /\ levelno' = [levelno EXCEPT ![t] = level]
    /\ pc' = [pc EXCEPT ![t] = "emit_acquire"]
    /\ op' = [op EXCEPT ![t] = "emit"]
    /\ UNCHANGED <<max_batch_size, error_queue, batch_lock, closed, wait, joined,
                   clock, sends, fallback, exitThread, appended, levels, dropped>>
    /\ UNCHANGED nonMailVars

\* a thread logs a record below the handler's level: emit is not called
Filtered(t) ==
    /\ pc[t] = "idle"
    /\ t # exitThread
    /\ Logged < MaxEvents
    /\ \E level \in RecordLevels : ~Accepts(level)
    /\ dropped' = dropped + 1
    /\ UNCHANGED <<max_batch_size, error_queue, batch_lock, closed, pc, op, wait,
                   joined, clock, sends, fallback, exitThread, appended, levelno,
                   levels>>
    /\ UNCHANGED nonMailVars

\* with self.batch_lock:
EmitAcquire(t) ==
    /\ pc[t] = "emit_acquire"
    /\ CanAcquire(t)
    /\ batch_lock' = t
    /\ pc' = [pc EXCEPT ![t] = "emit_append"]
    /\ UNCHANGED <<max_batch_size, error_queue, closed, op, wait, joined,
                   clock, sends, fallback, exitThread, appended>>
    /\ UNCHANGED logVars
    /\ UNCHANGED nonMailVars

EmitAppend(t) ==
    /\ pc[t] = "emit_append"
    /\ error_queue' = QueueAppend(error_queue, appended + 1)
    /\ appended' = appended + 1
    /\ levels' = Append(levels, levelno[t])
    /\ levelno' = [levelno EXCEPT ![t] = "NOTSET"]
    /\ pc' = [pc EXCEPT ![t] = "emit_check"]
    /\ UNCHANGED <<max_batch_size, batch_lock, closed, op, wait, joined,
                   clock, sends, fallback, exitThread, dropped>>
    /\ UNCHANGED nonMailVars

\* if ...: self._send_batch()    (still inside the with block)
EmitCheck(t) ==
    /\ pc[t] = "emit_check"
    /\ IF ReachedLimit(error_queue)
       THEN /\ pc' = [pc EXCEPT ![t] = "sb_acquire"]
            /\ wait' = [wait EXCEPT ![t] = FALSE]
       ELSE /\ pc' = [pc EXCEPT ![t] = "emit_exit"]
            /\ UNCHANGED wait
    /\ UNCHANGED <<max_batch_size, error_queue, batch_lock, closed, op, joined,
                   clock, sends, fallback, exitThread, appended>>
    /\ UNCHANGED logVars
    /\ UNCHANGED nonMailVars

\* the end of emit's with block: the lock is released and emit returns
\* (nothing in the block raises, so the except clause has nothing to catch)
EmitExit(t) ==
    /\ pc[t] = "emit_exit"
    /\ batch_lock' = NoThread
    /\ pc' = [pc EXCEPT ![t] = "idle"]
    /\ op' = [op EXCEPT ![t] = "none"]
    /\ UNCHANGED <<max_batch_size, error_queue, closed, wait, joined,
                   clock, sends, fallback, exitThread, appended>>
    /\ UNCHANGED logVars
    /\ UNCHANGED nonMailVars

(***************************************************************************)
(* flush, close and the atexit hook (atexit.register(self.flush))          *)
(***************************************************************************)
CallFlush(t) ==
    /\ pc[t] = "idle"
    /\ t # exitThread
    /\ pc' = [pc EXCEPT ![t] = "flush_check"]
    /\ op' = [op EXCEPT ![t] = "flush"]
    /\ UNCHANGED <<max_batch_size, error_queue, batch_lock, closed, wait, joined,
                   clock, sends, fallback, exitThread, appended>>
    /\ UNCHANGED logVars
    /\ UNCHANGED nonMailVars

CallClose(t) ==
    /\ pc[t] = "idle"
    /\ t # exitThread
    /\ pc' = [pc EXCEPT ![t] = "flush_check"]
    /\ op' = [op EXCEPT ![t] = "close"]
    /\ UNCHANGED <<max_batch_size, error_queue, batch_lock, closed, wait, joined,
                   clock, sends, fallback, exitThread, appended>>
    /\ UNCHANGED logVars
    /\ UNCHANGED nonMailVars

AtExit(t) ==
    /\ pc[t] = "idle"
    /\ exitThread = NoThread
    /\ exitThread' = t
    /\ pc' = [pc EXCEPT ![t] = "flush_check"]
    /\ op' = [op EXCEPT ![t] = "atexit"]
    /\ UNCHANGED <<max_batch_size, error_queue, batch_lock, closed, wait, joined,
                   clock, sends, fallback, appended>>
    /\ UNCHANGED logVars
    /\ UNCHANGED nonMailVars

\* where a flush goes when it is over: close goes on to super().close()
AfterFlush(t) == IF op[t] = "close" THEN "close_super" ELSE "idle"
OpAfterFlush(t) == IF op[t] = "close" THEN "close" ELSE "none"

\* if self.error_queue: self._send_batch(wait=True)     (read without the lock)
FlushCheck(t) ==
    /\ pc[t] = "flush_check"
    /\ IF error_queue # << >>
       THEN /\ pc' = [pc EXCEPT ![t] = "sb_acquire"]
            /\ wait' = [wait EXCEPT ![t] = TRUE]
            /\ UNCHANGED op
       ELSE /\ pc' = [pc EXCEPT ![t] = AfterFlush(t)]
            /\ op' = [op EXCEPT ![t] = OpAfterFlush(t)]
            /\ UNCHANGED wait
    /\ UNCHANGED <<max_batch_size, error_queue, batch_lock, closed, joined,
                   clock, sends, fallback, exitThread, appended>>
    /\ UNCHANGED logVars
    /\ UNCHANGED nonMailVars

\* super().close()
CloseSuper(t) ==
    /\ pc[t] = "close_super"
    /\ closed' = TRUE
    /\ pc' = [pc EXCEPT ![t] = "idle"]
    /\ op' = [op EXCEPT ![t] = "none"]
    /\ UNCHANGED <<max_batch_size, error_queue, batch_lock, wait, joined,
                   clock, sends, fallback, exitThread, appended>>
    /\ UNCHANGED logVars
    /\ UNCHANGED nonMailVars

(***************************************************************************)
(* _send_batch(wait)                                                       *)
(***************************************************************************)
\* with self.batch_lock:
SendBatchAcquire(t) ==
    /\ pc[t] = "sb_acquire"
    /\ CanAcquire(t)
    /\ batch_lock' = t
    /\ pc' = [pc EXCEPT ![t] = "sb_detach"]
    /\ UNCHANGED <<max_batch_size, error_queue, closed, op, wait, joined,
                   clock, sends, fallback, exitThread, appended>>
    /\ UNCHANGED logVars
    /\ UNCHANGED nonMailVars

\* the Thread object _send_batch starts: target=_send_email_batch, args=(records,)
NewSend(t, q) ==
    [records |-> DetachedRecords(q), wait |-> wait[t], daemon |-> ~wait[t],
     status |-> "running"]

\* a test that never finds the queue empty
NothingPending_Never(q) == FALSE

\* _send_batch's test: if not self.error_queue
NothingPending(q) == q = << >>

\* if not self.error_queue: return; else detach the queue and start the thread
SendBatchDetach(t) ==
    /\ pc[t] = "sb_detach"
    /\ IF NothingPending(error_queue)
       THEN /\ pc' = [pc EXCEPT ![t] = "sb_exit"]
            /\ UNCHANGED <<error_queue, sends, joined, clock>>
       ELSE /\ sends' = Append(sends, NewSend(t, error_queue))
            /\ error_queue' = ClearedQueue(error_queue)
            /\ IF wait[t]
               THEN /\ pc' = [pc EXCEPT ![t] = "sb_join"]
                    /\ joined' = [joined EXCEPT ![t] = Len(sends) + 1]
                    /\ clock' = [clock EXCEPT ![t] = 0]
               ELSE /\ pc' = [pc EXCEPT ![t] = "sb_exit"]
                    /\ UNCHANGED <<joined, clock>>
    /\ UNCHANGED <<max_batch_size, batch_lock, closed, op, wait, 
                   fallback, exitThread, appended>>
    /\ UNCHANGED logVars
    /\ UNCHANGED nonMailVars

\* thread.join(timeout=30) returns when the thread is over or the time is up
JoinOver(t) ==
    \/ sends[joined[t]].status # "running"
    \/ clock[t] >= JOIN_TIMEOUT

SendBatchJoin(t) ==
    /\ pc[t] = "sb_join"
    /\ JoinOver(t)
    /\ pc' = [pc EXCEPT ![t] = "sb_exit"]
    /\ UNCHANGED <<max_batch_size, error_queue, batch_lock, closed, op, wait, 
                   joined, clock, sends, fallback, exitThread, appended>>
    /\ UNCHANGED logVars
    /\ UNCHANGED nonMailVars

\* Time passes for a thread blocked in thread.join.  join compares the time
\* waited with its timeout and with nothing else, so the time that passes is
\* taken in one step: what is left of the timeout.
Tick(t) ==
    /\ pc[t] = "sb_join"
    /\ ~JoinOver(t)
    /\ clock' = [clock EXCEPT ![t] = clock[t] + (JOIN_TIMEOUT - clock[t])]
    /\ UNCHANGED <<max_batch_size, error_queue, batch_lock, closed, pc, op, wait, 
                   joined, sends, fallback, exitThread, appended>>
    /\ UNCHANGED logVars
    /\ UNCHANGED nonMailVars

\* the end of _send_batch's with block, and the return to the caller
SendBatchExit(t) ==
    /\ pc[t] = "sb_exit"
    /\ batch_lock' = NoThread
    /\ IF op[t] = "emit"
       THEN /\ pc' = [pc EXCEPT ![t] = "emit_exit"]
            /\ UNCHANGED op
       ELSE /\ pc' = [pc EXCEPT ![t] = AfterFlush(t)]
            /\ op' = [op EXCEPT ![t] = OpAfterFlush(t)]
    /\ UNCHANGED <<max_batch_size, error_queue, closed, wait, joined,
                   clock, sends, fallback, exitThread, appended>>
    /\ UNCHANGED logVars
    /\ UNCHANGED nonMailVars

(***************************************************************************)
(* _send_email_batch(records), on the send thread i                        *)
(***************************************************************************)
\* the records of the failed send put back in front of the queue
QueueAfterFailure_Requeue(q, records) == records \o q

\* the queue after a failed send: the except clause only prints
QueueAfterFailure(q, records) == q

\* send_html_alert returned
SendOk(i) ==
    /\ i \in DOMAIN sends
    /\ sends[i].status = "running"
    /\ sends' = [sends EXCEPT ![i].status = "sent"]
    /\ UNCHANGED <<max_batch_size, error_queue, batch_lock, closed, pc, op, wait, 
                   joined, clock, fallback, exitThread, appended>>
    /\ UNCHANGED logVars
    /\ UNCHANGED nonMailVars

\* except Exception as e: print(f"EmailHandler failed to send: {e}", flush=True)
SendFail(i) ==
    /\ i \in DOMAIN sends
    /\ sends[i].status = "running"
    /\ sends' = [sends EXCEPT ![i].status = "failed"]
    /\ fallback' = fallback \cup {i}
    /\ error_queue' = QueueAfterFailure(error_queue, sends[i].records)
    /\ UNCHANGED <<max_batch_size, batch_lock, closed, pc, op, wait, 
                   joined, clock, exitThread, appended>>
    /\ UNCHANGED logVars
    /\ UNCHANGED nonMailVars

(***************************************************************************)
(* The steps of the handler                                               *)
(***************************************************************************)
\* a step of thread t inside a call it has made
ThreadStep(t) ==
    \/ EmitAcquire(t)
    \/ EmitAppend(t)
    \/ EmitCheck(t)
    \/ EmitExit(t)
    \/ FlushCheck(t)
    \/ CloseSuper(t)
    \/ SendBatchAcquire(t)
    \/ SendBatchDetach(t)
    \/ SendBatchJoin(t)
    \/ SendBatchExit(t)

MailNext ==
    \/ \E t \in Threads : CallEmit(t)
    \/ \E t \in Threads : Filtered(t)
    \/ \E t \in Threads : CallFlush(t)
    \/ \E t \in Threads : CallClose(t)
    \/ \E t \in Threads : AtExit(t)
    \/ \E t \in Threads : ThreadStep(t)
    \/ \E t \in Threads : Tick(t)
    \/ \E i \in DOMAIN sends : SendOk(i)
    \/ \E i \in DOMAIN sends : SendFail(i)

(***************************************************************************)
(* posts.py.  A value of a post is a str, None or a dict; a dict is a      *)
(* function from its keys to values.  A str that is a path is a sequence   *)
(* of pieces, the piece "." being the separator of str.split.              *)
(***************************************************************************)
\* Levels of TweetWithVisibilityResults envelopes around a post.
MaxWrap == 2
\* Longest list of candidate paths of a table entry.
MaxPaths == 3

NoEntries == [k \in {} |-> 0]
Str(s) == [kind |-> "str", val |-> s, ent |-> NoEntries]
NoneVal == [kind |-> "none", val |-> "", ent |-> NoEntries]
Dict(f) == [kind |-> "dict", val |-> "", ent |-> f]
EmptyDict == Dict(NoEntries)
IsDict(v) == v.kind = "dict"

Return(v) == [tag |-> "return", val |-> v]
Raise(e) == [tag |-> "raise", val |-> Str(e)]
NotCalled == [tag |-> "none", val |-> NoneVal]

\* str.split("."): the pieces between the separators, empty ones included
RECURSIVE Split(_)
Split(s) ==
    IF \A k \in DOMAIN s : s[k] # "."
    THEN <<s>>
    ELSE LET d == CHOOSE k \in DOMAIN s :
                      s[k] = "." /\ \A j \in 1..(k - 1) : s[j] # "."
         IN  <<SubSeq(s, 1, d - 1)>> \o Split(SubSeq(s, d + 1, Len(s)))

\* whether the str `part` is the key k: a key is one piece
IsKey(part, k) == part = <<k>>

\* d.get(part, default) on a dict d
DictGet(d, part, default) ==
    IF \E k \in DOMAIN d.ent : IsKey(part, k)
    THEN d.ent[CHOOSE k \in DOMAIN d.ent : IsKey(part, k)]
    ELSE default

\* obj.get(part, default): only a dict has the method get
Get(obj, part, default) ==
    IF IsDict(obj) THEN Return(DictGet(obj, part, default))
    ELSE Raise("AttributeError")

TypenameKey == <<"__typename">>
TweetKey == <<"tweet">>
Wrapper == Str("TweetWithVisibilityResults")

\* an unwrapping that opens one envelope only (an if where the source has a
\* while): the variant the transparency of unwrapping is checked against
Unwrap_Once(obj) ==
    LET t == Get(obj, TypenameKey, NoneVal)
    IN  IF t.tag = "raise" THEN t
        ELSE IF t.val = Wrapper
             THEN Return(DictGet(obj, TweetKey, EmptyDict))
             ELSE Return(obj)

\* while post_obj.get("__typename") == "TweetWithVisibilityResults":
\*     post_obj = post_obj.get("tweet", {})
RECURSIVE Unwrap(_)
Unwrap(obj) ==
    LET t == Get(obj, TypenameKey, NoneVal)
    IN  IF t.tag = "raise" THEN t
        ELSE IF t.val = Wrapper
             THEN Unwrap(DictGet(obj, TweetKey, EmptyDict))
             ELSE Return(obj)

\* for _part in _path: _cursor = _cursor.get(_part, {})
RECURSIVE Walk(_, _)
Walk(cursor, parts) ==
    IF parts = << >> THEN Return(cursor)
    ELSE LET nxt == Get(cursor, Head(parts), EmptyDict)
         IN  IF nxt.tag = "raise" THEN nxt ELSE Walk(nxt.val, Tail(parts))

\* the loop over post_attr_paths[attr]: the list _values, or the exception
\* of the first path that raises
RECURSIVE Collect(_, _)
Collect(obj, paths) ==
    IF paths = << >> THEN Return(<< >>)
    ELSE LET w == Walk(obj, Split(Head(paths)))
         IN  IF w.tag = "raise" THEN w
             ELSE LET rest == Collect(obj, Tail(paths))
                  IN  IF rest.tag = "raise" THEN rest
                      ELSE IF IsDict(w.val) THEN rest
                           ELSE Return(<<w.val>> \o rest.val)

\* assert len(set(_values)) == 1
Agree(values) == Cardinality({values[k] : k \in DOMAIN values}) = 1

\* if not _values: return None; assert ...; return _values[0]
Conclude(values) ==
    IF values = << >> THEN Return(NoneVal)
    ELSE IF ~Agree(values) THEN Raise("AssertionError")
         ELSE Return(values[1])

get_post_attr(obj, a, table) ==
    IF a = "__typename" THEN Get(obj, TypenameKey, NoneVal)
    ELSE LET u == Unwrap(obj)
         IN  IF u.tag = "raise" THEN u
             ELSE IF a \notin DOMAIN table THEN Return(NoneVal)
                  ELSE LET c == Collect(u.val, table[a])
                       IN  IF c.tag = "raise" THEN c ELSE Conclude(c.val)

(***************************************************************************)
(* The inputs of get_post_attr within the bounds.                          *)
(***************************************************************************)
Scalars == {Str("a"), Str("b")}

\* the dicts with keys among K and values among V
DictsOver(K, V) == UNION {{Dict(f) : f \in [S -> V]} : S \in SUBSET K}

\* legacy and note_tweet: a scalar, or a dict with at most the key text
Inner == DictsOver({"text"}, Scalars \cup {EmptyDict})

\* a tweet: legacy, note_tweet and the type discriminator, each there or not
Tweets ==
    {Dict(f) : f \in UNION {[S -> Scalars \cup Inner] : S \in SUBSET {"legacy", "note_tweet"}}}
    \cup {Dict(f @@ ("__typename" :> Str("Tweet"))) :
            f \in UNION {[S -> Scalars \cup Inner] : S \in SUBSET {"legacy", "note_tweet"}}}

\* an envelope around p, one with no tweet, one whose tweet is not a dict
Envelope(p) == Dict(("__typename" :> Wrapper) @@ ("tweet" :> p))
BareEnvelope == Dict("__typename" :> Wrapper)
ScalarEnvelope == Envelope(Str("a"))

RECURSIVE Wrapped(_, _)
Wrapped(P, k) == IF k = 0 THEN P ELSE {Envelope(p) : p \in Wrapped(P, k - 1)}

Posts == UNION {Wrapped(Tweets \cup {BareEnvelope, ScalarEnvelope}, k) : k \in 0..MaxWrap}

NotePath == <<"note_tweet", ".", "text">>
LegacyPath == <<"legacy", ".", "text">>
PathStrings == {NotePath, LegacyPath, <<"legacy">>}

PathLists == UNION {[1..n -> PathStrings] : n \in 0..MaxPaths}

TableAttrs == {"text", "lang"}
Tables == UNION {[S -> PathLists] : S \in SUBSET TableAttrs}

Attrs == TableAttrs \cup {"__typename", "geo"}

PostArgs ==
    /\ post_obj \in Posts
    /\ attr \in Attrs
    /\ post_attr_paths \in Tables
    /\ result = NotCalled

\* the state of the extractor while the handler's specification runs
PostIdle ==
    /\ post_obj = EmptyDict
    /\ attr = "__typename"
    /\ post_attr_paths = NoEntries
    /\ result = NotCalled

Call ==
    /\ result = NotCalled
    /\ result' = get_post_attr(post_obj, attr, post_attr_paths)
    /\ UNCHANGED <<post_obj, attr, post_attr_paths>>
    /\ UNCHANGED nonPostVars

(***************************************************************************)
(* mail.py: send_alert and send_html_alert.  One call is followed through  *)
(* its statements; every call to the file system or to the server either   *)
(* succeeds or raises.                                                     *)
(***************************************************************************)
\* Longest list of addresses passed as to_addr.
MaxRecipients == 2

\* an address is a string, written as the sequence of its pieces
Addresses == {<<"a">>, <<"b">>}
AddrStr(a) == [kind |-> "str", val |-> a]
AddrList(l) == [kind |-> "list", val |-> l]
ToAddrs ==
    {AddrStr(a) : a \in Addresses}
    \cup {AddrList(l) : l \in UNION {[1..n -> Addresses] : n \in 0..MaxRecipients}}

\* sep.join(strings)
RECURSIVE Join(_, _)
Join(sep, strings) ==
    IF strings = << >> THEN << >>
    ELSE IF Len(strings) = 1 THEN strings[1]
         ELSE strings[1] \o sep \o Join(sep, Tail(strings))

\* to_addr if isinstance(to_addr, str) else ", ".join(to_addr)
ToHeader(to) == IF to.kind = "str" THEN to.val ELSE Join(<<",", " ">>, to.val)

NoMessage == [type |-> "none", To |-> << >>, parts |-> << >>]

\* MIMEText(body), or MIMEMultipart("alternative") with the html part attached
Message(fn, to) ==
    IF fn = "send_alert"
    THEN [type |-> "text/plain", To |-> ToHeader(to), parts |-> << >>]
    ELSE [type |-> "multipart/alternative", To |-> ToHeader(to),
          parts |-> <<"text/html">>]

AlertFns == {"send_alert", "send_html_alert"}

\* a call that has just been made
AlertArgs ==
    /\ alert_fn \in AlertFns
    /\ to_addr \in ToAddrs
    /\ alert_pc = "read_pwd"
    /\ pwd = FALSE
    /\ msg = NoMessage
    /\ session = "none"
    /\ raised = "none"
    /\ transcript = << >>
    /\ delivered = << >>

\* no call of an alert function
AlertIdle ==
    /\ alert_fn = "send_alert"
    /\ to_addr = AddrList(<< >>)
    /\ alert_pc = "idle"
    /\ pwd = FALSE
    /\ msg = NoMessage
    /\ session = "none"
    /\ raised = "none"
    /\ transcript = << >>
    /\ delivered = << >>

\* a with block that leaves the session as it finds it
SessionAfterWith_Left(sess) == sess

\* leaving "with smtplib.SMTP(...) as s", by its end or by an exception,
\* closes the session
SessionAfterWith(sess) == "closed"

\* pwd = Path.home().joinpath(pwdfile).read_text().strip()
ReadPwd ==
    /\ alert_pc = "read_pwd"
    /\ transcript' = Append(transcript, "read_text")
    /\ \E ok \in BOOLEAN :
           IF ok
           THEN /\ pwd' = TRUE
                /\ alert_pc' = "build"
                /\ UNCHANGED raised
           ELSE /\ raised' = "read_text"
                /\ alert_pc' = "done"
                /\ UNCHANGED pwd
    /\ UNCHANGED <<alert_fn, to_addr, msg, session, delivered>>
    /\ UNCHANGED nonAlertVars

\* msg = ...; msg["Subject"], msg["From"], msg["To"] = ...
BuildMessage ==
    /\ alert_pc = "build"
    /\ msg' = Message(alert_fn, to_addr)
    /\ alert_pc' = "connect"
    /\ UNCHANGED <<alert_fn, to_addr, pwd, session, raised, transcript,
                   delivered>>
    /\ UNCHANGED nonAlertVars

\* smtplib.SMTP(smtp_server, smtp_port): the constructor connects
Connect ==
    /\ alert_pc = "connect"
    /\ transcript' = Append(transcript, "SMTP")
    /\ \E ok \in BOOLEAN :
           IF ok
           THEN /\ session' = "open"
                /\ alert_pc' = "starttls"
                /\ UNCHANGED raised
           ELSE /\ raised' = "SMTP"
                /\ alert_pc' = "done"
                /\ UNCHANGED session
    /\ UNCHANGED <<alert_fn, to_addr, pwd, msg, delivered>>
    /\ UNCHANGED nonAlertVars

\* a call on the open session: on success the next statement, on an
\* exception the way out of the with block
InSession(call, next) ==
    /\ transcript' = Append(transcript, call)
    /\ \E ok \in BOOLEAN :
           IF ok
           THEN /\ alert_pc' = next
                /\ delivered' = IF call = "send_message"
                                THEN Append(delivered, msg) ELSE delivered
                /\ UNCHANGED raised
           ELSE /\ raised' = call
                /\ alert_pc' = "with_exit"
                /\ UNCHANGED delivered
    /\ UNCHANGED <<alert_fn, to_addr, pwd, msg, session>>
    /\ UNCHANGED nonAlertVars

\* s.starttls()
StartTLS ==
    /\ alert_pc = "starttls"
    /\ InSession("starttls", "login")

\* s.login(from_addr, pwd)
Login ==
    /\ alert_pc = "login"
    /\ InSession("login", "send_message")

\* s.send_message(msg)
SendMessage ==
    /\ alert_pc = "send_message"
    /\ InSession("send_message", "with_exit")

\* the end of the with block: SMTP.__exit__ sends QUIT and closes the
\* session; an exception of the block goes on to the caller, and a QUIT
\* that the server refuses raises after a block that ended well
WithExit ==
    /\ alert_pc = "with_exit"
    /\ transcript' = Append(transcript, "quit")
    /\ session' = SessionAfterWith(session)
    /\ \E ok \in BOOLEAN :
           raised' = IF raised = "none" /\ ~ok THEN "quit" ELSE raised
    /\ alert_pc' = "done"
    /\ UNCHANGED <<alert_fn, to_addr, pwd, msg, delivered>>
    /\ UNCHANGED nonAlertVars

AlertNext ==
    \/ ReadPwd
    \/ BuildMessage
    \/ Connect
    \/ StartTLS
    \/ Login
    \/ SendMessage
    \/ WithExit

(***************************************************************************)
(* mail.py: _escape_html, and the stack trace block of _format_html_batch. *)
(* A text is the sequence of its pieces: each piece is one of the special  *)
(* characters & < > " ', a semicolon, or a word of other characters.       *)
(***************************************************************************)
\* Longest stack trace text, in pieces.
MaxText == 4

Specials == {"&", "<", ">", "\"", "'"}
Pieces == Specials \cup {";", "amp", "lt", "script"}
Texts == UNION {[1..n -> Pieces] : n \in 0..MaxText}

\* text.replace(old, new), for a character old
RECURSIVE Replace(_, _, _)
Replace(text, old, new) ==
    IF text = << >> THEN << >>
    ELSE (IF Head(text) = old THEN new ELSE <<Head(text)>>)
         \o Replace(Tail(text), old, new)

\* "&amp;", "&lt;", "&gt;", "&quot;", "&#39;"
Amp == <<"&", "amp", ";">>
Lt == <<"&", "lt", ";">>
Gt == <<"&", "gt", ";">>
Quot == <<"&", "quot", ";">>
Apos == <<"&", "#39", ";">>

\* the replacements with the one of "&" made last
_escape_html_AmpLast(text) ==
    Replace(Replace(Replace(Replace(Replace(text,
        "<", Lt), ">", Gt), "\"", Quot), "'", Apos), "&", Amp)

\* text.replace("&", "&amp;").replace("<", "&lt;").replace(">", "&gt;")
\*     .replace('"', "&quot;").replace("'", "&#39;")
_escape_html(text) ==
    Replace(Replace(Replace(Replace(Replace(text,
        "&", Amp), "<", Lt), ">", Gt), "\"", Quot), "'", Apos)

\* <div class="stacktrace"> and </div>
StacktraceOpen == <<"<", "div class=", "\"", "stacktrace", "\"", ">">>
StacktraceClose == <<"<", "/div", ">">>

\* f'<div class="stacktrace">{self._escape_html(exc_text)}</div>'
StacktraceBlock(content) == StacktraceOpen \o content \o StacktraceClose

\* a record with exc_info whose stack trace is about to be rendered
EscapeArgs ==
    /\ exc_text \in Texts
    /\ esc_pc = "format"
    /\ escaped = << >>
    /\ html = << >>

\* no batch is being formatted
EscapeIdle ==
    /\ exc_text = << >>
    /\ esc_pc = "idle"
    /\ escaped = << >>
    /\ html = << >>

\* self._escape_html(exc_text)
EscapeHtml ==
    /\ esc_pc = "format"
    /\ escaped' = _escape_html(exc_text)
    /\ esc_pc' = "escaped"
    /\ UNCHANGED <<exc_text, html>>
    /\ UNCHANGED <<mailVars, postVars, alertVars>>

\* html += f"""... <div class="stacktrace">{...}</div> ..."""
AddStacktrace ==
    /\ esc_pc = "escaped"
    /\ html' = html \o StacktraceBlock(escaped)
    /\ esc_pc' = "added"
    /\ UNCHANGED <<exc_text, escaped>>
    /\ UNCHANGED <<mailVars, postVars, alertVars>>

EscapeNext ==
    \/ EscapeHtml
    \/ AddStacktrace

(***************************************************************************)
(* Specifications                                                          *)
(***************************************************************************)
vars == <<mailVars, postVars, alertVars, escapeVars>>

Init == MailInit /\ PostIdle /\ AlertIdle /\ EscapeIdle

Next == MailNext

Spec == Init /\ [][Next]_vars

\* Threads are scheduled: a thread that can go on inside its call does, and
\* time passes for a thread in join.  Nothing makes the application call the
\* handler, and nothing makes a send end.
Fairness ==
    /\ \A t \in Threads : WF_vars(ThreadStep(t))
    /\ \A t \in Threads : WF_vars(Tick(t))

FairSpec == Init /\ [][Next]_vars /\ Fairness

\* the extractor's calls, beside a handler as __init__ leaves it, with no limit
PostsInit == MailInit /\ max_batch_size = 0 /\ PostArgs /\ AlertIdle /\ EscapeIdle

PostsNext == Call

PostsSpec == PostsInit /\ [][PostsNext]_vars

\* one call of an alert function, beside an idle handler and extractor
AlertInit ==
    MailInit /\ max_batch_size = 0 /\ PostIdle /\ AlertArgs /\ EscapeIdle

AlertSpec == AlertInit /\ [][AlertNext]_vars

\* the rendering of one stack trace, beside an idle handler and extractor
EscapeInit ==
    MailInit /\ max_batch_size = 0 /\ PostIdle /\ AlertIdle /\ EscapeArgs

EscapeSpec == EscapeInit /\ [][EscapeNext]_vars

(***************************************************************************)
(* Vocabulary of the properties                                            *)
(***************************************************************************)
\* the sends dispatched by emit (on the threshold) and by flush/close/atexit
AutoSends == {i \in DOMAIN sends : ~sends[i].wait}
WaitSends == {i \in DOMAIN sends : sends[i].wait}

InSeq(r, q) == \E k \in DOMAIN q : q[k] = r
Occurrences(r, q) == Cardinality({k \in DOMAIN q : q[k] = r})

\* the number of dispatched batches record r is in
BatchesOf(r) == Cardinality({i \in DOMAIN sends : InSeq(r, sends[i].records)})

\* no thread can go on without a new call or the end of a send
AtRest == \A t \in Threads : ~ENABLED ThreadStep(t) /\ ~ENABLED Tick(t)

InFlush(t) == op[t] \in {"flush", "close", "atexit"}

\* a step that starts a send thread
Dispatches == Len(sends') = Len(sends) + 1

(***************************************************************************)
(* C1: with a limit L >= 1 and no explicit flush, N queued records give    *)
(* floor(N/L) automatic sends of L records each and leave N mod L records  *)
(* pending.  Stated of the states where the handler is at rest.            *)
(***************************************************************************)
C1_AutoFlushPerLimit ==
    (/\ max_batch_size >= 1
     /\ WaitSends = {}
     /\ \A t \in Threads : ~InFlush(t)
     /\ AtRest)
    => /\ Cardinality(AutoSends) = appended \div max_batch_size
       /\ \A i \in AutoSends : Len(sends[i].records) = max_batch_size
       /\ Len(error_queue) = appended % max_batch_size

(***************************************************************************)
(* C2: every call of emit returns, the one that reaches the limit too.     *)
(***************************************************************************)
C2_EmitReturns == \A t \in Threads : (op[t] = "emit") ~> (op[t] # "emit")

(***************************************************************************)
(* C3: no thread holds batch_lock while it waits for a send in flight.     *)
(***************************************************************************)
C3_LockFreeDuringSend ==
    \A t \in Threads :
        ~(/\ batch_lock = t
          /\ pc[t] = "sb_join"
          /\ sends[joined[t]].status = "running")

\* every appended record is in one place: the queue, or one batch
C4_OnePlace ==
    \A r \in 1..appended : Occurrences(r, error_queue) + BatchesOf(r) = 1

\* a step that dispatches empties the queue; no step changes a batch
C4_DetachStep ==
    /\ Dispatches => error_queue' = << >>
    /\ \A i \in DOMAIN sends :
          i \in DOMAIN sends' /\ sends'[i].records = sends[i].records

(***************************************************************************)
(* C4: every appended record is in the pending queue or in exactly one     *)
(* dispatched batch, never both; the detach step leaves the queue empty;   *)
(* a dispatched batch never changes, so a record appended later is in a    *)
(* later batch.                                                            *)
(***************************************************************************)
C4_NoDuplicationNoLoss == []C4_OnePlace /\ [][C4_DetachStep]_vars

\* records pile up again while two earlier batches are out, one still in flight
C4_Witness ==
    /\ Len(sends) >= 2
    /\ \E i \in DOMAIN sends : sends[i].status = "running"
    /\ error_queue # << >>

\* with no limit no send comes from emit, and no emit is in _send_batch
C5_NoEmitSend ==
    max_batch_size = 0 =>
        /\ AutoSends = {}
        /\ \A t \in Threads :
              op[t] = "emit" => pc[t] \in {"emit_acquire", "emit_append",
                                           "emit_check", "emit_exit"}

\* with no limit, a step that dispatches is a flush's and takes all that is pending
C5_FlushTakesAll ==
    (max_batch_size = 0 /\ Dispatches) =>
        /\ \E t \in Threads : InFlush(t) /\ pc[t] = "sb_detach"
        /\ sends'[Len(sends')].records = error_queue
        /\ Len(sends'[Len(sends')].records)
              = appended - Cardinality({r \in 1..appended : BatchesOf(r) >= 1})

(***************************************************************************)
(* C5: with no limit, emit dispatches nothing and never enters             *)
(* _send_batch; every send is dispatched by flush, close or the exit hook  *)
(* and carries the whole pending queue.                                    *)
(***************************************************************************)
C5_NoLimitNoAutoSend == []C5_NoEmitSend /\ [][C5_FlushTakesAll]_vars

\* without a limit, one flush has sent several records as one batch
C5_Witness ==
    /\ max_batch_size = 0
    /\ \E i \in DOMAIN sends : sends[i].wait /\ Len(sends[i].records) >= 2

\* join is left when the send is over or the timeout has passed
C6_JoinStep ==
    \A t \in Threads :
        (pc[t] = "sb_join" /\ pc'[t] # "sb_join")
        => (sends[joined[t]].status # "running" \/ clock[t] >= JOIN_TIMEOUT)

(***************************************************************************)
(* C6: a flush with a send to wait for leaves join only when the send is   *)
(* over or the timeout has passed, and every flush, close and exit hook    *)
(* returns.                                                                *)
(***************************************************************************)
C6_ShutdownFlushWaits ==
    /\ [][C6_JoinStep]_vars
    /\ \A t \in Threads : InFlush(t) ~> ~InFlush(t)

\* the step in which a send fails
C7_FailureStep ==
    \A i \in DOMAIN sends :
        (sends[i].status = "running" /\ sends'[i].status = "failed")
        => /\ error_queue' = error_queue
           /\ pc' = pc /\ op' = op /\ batch_lock' = batch_lock
           /\ Len(sends') = Len(sends)
           /\ fallback' = fallback \cup {i}

\* a failed send stays failed; its records stay out of the queue and of
\* every other send
C7_NoRetryStep ==
    \A i \in DOMAIN sends :
        sends[i].status = "failed"
        => /\ sends'[i].status = "failed"
           /\ \A k \in DOMAIN sends[i].records :
                 /\ ~InSeq(sends[i].records[k], error_queue')
                 /\ \A j \in DOMAIN sends' :
                       j # i => ~InSeq(sends[i].records[k], sends'[j].records)

(***************************************************************************)
(* C7: the failure of a send is printed and nothing else: the callers go   *)
(* on as they were, the pending queue is as it was, no send is started,    *)
(* and a failed send stays failed, its records in no other batch.          *)
(***************************************************************************)
C7_FailedSendDropped == [][C7_FailureStep /\ C7_NoRetryStep]_vars

\* a send has failed under the flush that waited for it, and another one
\* that no flush waits for any more
C7_Witness ==
    /\ \E t \in Threads :
          /\ pc[t] = "sb_exit"
          /\ joined[t] \in DOMAIN sends
          /\ sends[joined[t]].status = "failed"
          /\ joined[t] \in fallback
    /\ \E i \in DOMAIN sends :
          sends[i].status = "failed" /\ \A t \in Threads : joined[t] # i

(***************************************************************************)
(* Vocabulary of the extractor's properties: the walk as the               *)
(* specification words it, where a step that is not there, or a step from  *)
(* a value that is no dict, gives an empty dict.                           *)
(***************************************************************************)
RECURSIVE LenientWalk(_, _)
LenientWalk(cursor, parts) ==
    IF parts = << >> THEN cursor
    ELSE LenientWalk(IF IsDict(cursor) THEN DictGet(cursor, Head(parts), EmptyDict)
                     ELSE EmptyDict,
                     Tail(parts))

\* the values that are no dict at the end of the candidate paths
FoundValues(obj, paths) ==
    {v \in {LenientWalk(obj, Split(paths[k])) : k \in DOMAIN paths} : ~IsDict(v)}

Called == result # NotCalled

\* the call has a table entry to walk, in a post whose envelopes unwrap
Walks ==
    /\ Called
    /\ attr # "__typename"
    /\ attr \in DOMAIN post_attr_paths
    /\ Unwrap(post_obj).tag = "return"

(***************************************************************************)
(* C8: asked for "text" with the note_tweet path first and the legacy path *)
(* second, both ending on values that differ, get_post_attr does not raise *)
(* and returns the first path's value.                                     *)
(***************************************************************************)
C8_TextFallsBack ==
    (/\ Walks
     /\ attr = "text"
     /\ post_attr_paths[attr] = <<NotePath, LegacyPath>>
     /\ Cardinality(FoundValues(Unwrap(post_obj).val, post_attr_paths[attr])) = 2)
    => result = Return(LenientWalk(Unwrap(post_obj).val, Split(NotePath)))

(***************************************************************************)
(* C9: an attribute that the table does not hold gives None, and no        *)
(* exception, whatever the post (the type discriminator, which is answered *)
(* before the table is looked at, aside).                                  *)
(***************************************************************************)
C9_UnknownAttrIsNone ==
    (Called /\ attr # "__typename" /\ attr \notin DOMAIN post_attr_paths)
    => result = Return(NoneVal)

(***************************************************************************)
(* C10: the walk never raises; with no value found the result is None,     *)
(* with one distinct value found it is that value.                         *)
(***************************************************************************)
C10_WalkIsLenient ==
    Walks =>
        LET found == FoundValues(Unwrap(post_obj).val, post_attr_paths[attr])
        IN  /\ result.tag = "return"
               \/ (result = Raise("AssertionError") /\ Cardinality(found) > 1)
            /\ found = {} => result = Return(NoneVal)
            /\ Cardinality(found) = 1 => \E v \in found : result = Return(v)

(***************************************************************************)
(* C11: asked for an attribute other than "text", when two candidate paths *)
(* of its table entry end on values of the post that are no dicts and      *)
(* differ, get_post_attr raises the assertion error and returns neither.   *)
(***************************************************************************)
C11_ConflictRaisesAssertion ==
    (/\ Walks
     /\ attr # "text"
     /\ Cardinality(FoundValues(Unwrap(post_obj).val, post_attr_paths[attr])) >= 2)
    => result = Raise("AssertionError")

\* the post p inside k envelopes
RECURSIVE Enveloped(_, _)
Enveloped(p, k) == IF k = 0 THEN p ELSE Envelope(Enveloped(p, k - 1))

(***************************************************************************)
(* C12: unwrapping is transparent.  For every post, every number k >= 1 of *)
(* envelopes put around it, every table and every attribute other than     *)
(* "__typename", get_post_attr of the enveloped post is the result of      *)
(* get_post_attr of the post itself; asked for "__typename" it answers     *)
(* with the outermost object's own type discriminator, whatever the table. *)
(***************************************************************************)
C12_UnwrapIsTransparent ==
    Called =>
        /\ attr # "__typename" =>
               \A k \in 1..MaxWrap :
                   get_post_attr(Enveloped(post_obj, k), attr, post_attr_paths)
                       = result
        /\ attr = "__typename" =>
               /\ result = Return(DictGet(post_obj, TypenameKey, NoneVal))
               /\ \A k \in 1..MaxWrap :
                      get_post_attr(Enveloped(post_obj, k), attr, post_attr_paths)
                          = Return(Wrapper)

\* a call on a tweet inside two envelopes that returned the tweet's own text
C12_Witness ==
    /\ Called
    /\ attr = "text"
    /\ \E core \in Tweets :
           /\ post_obj = Enveloped(core, 2)
           /\ result = get_post_attr(core, attr, post_attr_paths)
    /\ result.tag = "return"
    /\ result.val \in Scalars

(***************************************************************************)
(* Vocabulary of the alert functions' property                             *)
(***************************************************************************)
\* the calls of one transport session up to the send, in the claimed order
SessionOrder == <<"read_text", "SMTP", "starttls", "login", "send_message">>
SessionCalls == {SessionOrder[k] : k \in DOMAIN SessionOrder}

IsPrefix(a, b) == Len(a) <= Len(b) /\ \A k \in DOMAIN a : a[k] = b[k]

\* the call was made and did not raise
Succeeded(call) == InSeq(call, transcript) /\ raised # call

IsQuit(call) == call = "quit"
NotQuit(call) == ~IsQuit(call)

(***************************************************************************)
(* C13: a call of send_alert or send_html_alert reads the credentials,     *)
(* opens the session, starts TLS, logs in and sends, in this order and     *)
(* each at most once (no retry); the message is sent only after every      *)
(* earlier call succeeded; a call that returns has sent exactly one        *)
(* message, the one built from its arguments; a call that raises at one of *)
(* the five steps makes no further step, has sent no message and ends with *)
(* that exception; and a session that was opened is closed when the call   *)
(* is over, whether it returned or raised.                                 *)
(***************************************************************************)
C13_OneSessionInOrder ==
    LET calls == SelectSeq(transcript, NotQuit)
    IN  /\ IsPrefix(calls, SessionOrder)
        /\ Occurrences("quit", transcript) <= 1
        /\ InSeq("quit", transcript) => IsQuit(transcript[Len(transcript)])
        /\ Len(delivered) <= 1
        /\ delivered # << >> =>
               /\ \A c \in SessionCalls : Succeeded(c)
               /\ delivered[1] = Message(alert_fn, to_addr)
        /\ raised \in SessionCalls =>
               /\ delivered = << >>
               /\ calls[Len(calls)] = raised
        /\ alert_pc = "done" =>
               /\ raised = "none" => Len(delivered) = 1
               /\ raised = "none" \/ raised = "quit"
                      \/ raised = transcript[Len(calls)]
               /\ session = IF Succeeded("SMTP") THEN "closed" ELSE "none"

\* a call to several addresses whose login was refused: it is over, the
\* session it opened is closed and no message was sent
C13_Witness ==
    /\ alert_pc = "done"
    /\ to_addr.kind = "list"
    /\ Len(to_addr.val) = 2
    /\ raised = "login"
    /\ session = "closed"
    /\ delivered = << >>
    /\ transcript = <<"read_text", "SMTP", "starttls", "login", "quit">>

Entities == {Amp, Lt, Gt, Quot, Apos}

\* the character an entity stands for
CharOf(e) ==
    IF e = Amp THEN "&"
    ELSE IF e = Lt THEN "<"
    ELSE IF e = Gt THEN ">"
    ELSE IF e = Quot THEN "\"" ELSE "'"

\* the text with every entity replaced, left to right, by its character
RECURSIVE Unescape(_)
Unescape(text) ==
    IF text = << >> THEN << >>
    ELSE IF Len(text) >= 3 /\ SubSeq(text, 1, 3) \in Entities
         THEN <<CharOf(SubSeq(text, 1, 3))>> \o Unescape(SubSeq(text, 4, Len(text)))
         ELSE <<Head(text)>> \o Unescape(Tail(text))

\* the text has the pieces <, script, > in a row
HasScriptTag(text) ==
    \E k \in DOMAIN text :
        k + 2 <= Len(text) /\ SubSeq(text, k, k + 2) = <<"<", "script", ">">>

\* what the stack trace block holds between its tags
BlockContent(block) ==
    SubSeq(block, Len(StacktraceOpen) + 1, Len(block) - Len(StacktraceClose))

(***************************************************************************)
(* C15: _escape_html round-trips.  The escaped text has no raw <, >, " or  *)
(* ', every & in it begins one of the five entities, and replacing the     *)
(* entities back gives the text that was escaped; the stack trace block    *)
(* holds the escaped text between its tags, so no angle bracket of the     *)
(* stack trace (of a <script> in it, for one) is rendered unescaped.       *)
(***************************************************************************)
C15_EscapeRoundTrips ==
    /\ esc_pc \in {"escaped", "added"} =>
           /\ \A k \in DOMAIN escaped : escaped[k] \notin {"<", ">", "\"", "'"}
           /\ \A k \in DOMAIN escaped :
                  escaped[k] = "&" =>
                      /\ k + 2 <= Len(escaped)
                      /\ SubSeq(escaped, k, k + 2) \in Entities
           /\ Unescape(escaped) = exc_text
    /\ esc_pc = "added" =>
           /\ SubSeq(html, 1, Len(StacktraceOpen)) = StacktraceOpen
           /\ SubSeq(html, Len(html) - Len(StacktraceClose) + 1, Len(html))
                  = StacktraceClose
           /\ Unescape(BlockContent(html)) = exc_text
           /\ \A k \in DOMAIN BlockContent(html) :
                  BlockContent(html)[k] \notin {"<", ">"}

\* a stack trace with an ampersand and a <script> in it has been rendered
C15_Witness ==
    /\ esc_pc = "added"
    /\ HasScriptTag(exc_text)
    /\ \E k \in DOMAIN exc_text : exc_text[k] = "&"
    /\ ~HasScriptTag(html)

(***************************************************************************)
(* C16: every dispatched batch is non-empty.  Whatever the interleaving of *)
(* emit, flush, close and the exit hook, no send thread is started with no *)
(* record, and no step taken while the pending queue is empty starts one   *)
(* (a flush that passed its unlocked test and finds the queue emptied by   *)
(* another flush, and the exit hook after close, dispatch nothing).        *)
(***************************************************************************)
C16_NonEmptyBatch == \A i \in DOMAIN sends : sends[i].records # << >>

C16_EmptyStep == error_queue = << >> => ~Dispatches

C16_BatchesNonEmpty == [](C16_NonEmptyBatch) /\ [][C16_EmptyStep]_vars

\* a flush, close or exit hook that passed the unlocked test of flush, then
\* found the queue empty inside _send_batch (another one had dispatched it)
\* and is about to leave without a send of its own
C16_Witness ==
    \E t \in Threads :
        /\ InFlush(t)
        /\ pc[t] = "sb_exit"
        /\ wait[t]
        /\ joined[t] = 0
        /\ error_queue = << >>
        /\ Len(sends) = 1

(***************************************************************************)
(* C17: batches keep the order of emission.  The records of a dispatched   *)
(* batch are in the order of their appends to the queue (record n is the   *)
(* n-th record appended), and every record of a batch detached earlier was *)
(* appended before every record of a batch detached later (the sends are   *)
(* kept in the order of their detaches).                                   *)
(***************************************************************************)
C17_BatchesInOrder ==
    /\ \A i \in DOMAIN sends :
           \A k, l \in DOMAIN sends[i].records :
               k < l => sends[i].records[k] < sends[i].records[l]
    /\ \A i, j \in DOMAIN sends :
           i < j =>
               \A k \in DOMAIN sends[i].records :
                   \A l \in DOMAIN sends[j].records :
                       sends[i].records[k] < sends[j].records[l]

\* a batch of two records followed by a batch of a later record
C17_Witness ==
    /\ Len(sends) = 2
    /\ sends[1].records = <<1, 2>>
    /\ sends[2].records = <<3>>

(***************************************************************************)
(* C18: with a limit L >= 1, in every reachable state, whatever the number *)
(* of threads in emit, the pending queue holds at most L records and no    *)
(* dispatched batch has more than L records.                               *)
(***************************************************************************)
C18_QueueWithinLimit ==
    max_batch_size >= 1 =>
        /\ Len(error_queue) <= max_batch_size
        /\ \A i \in DOMAIN sends : Len(sends[i].records) <= max_batch_size

\* the queue is at its limit of two while another thread is in emit with a
\* record of its own
C18_Witness ==
    /\ max_batch_size = 2
    /\ Len(error_queue) = max_batch_size
    /\ \E t \in Threads : pc[t] = "emit_acquire"

====
